---- MODULE Spec2Model ----
(***************************************************************************)
(* A model of the Keycard communication core of TrustTap:                  *)
(*   - KeycardService (PIN verification, key derivation, signing),         *)
(*   - NFCService     (SELECT + command APDU exchanges over NfcManager),   *)
(*   - NFCModule and MainActivity (the Android IsoDep bridge and the tag   *)
(*     discovery intents),                                                 *)
(*   - formatAPDU, parseDerivationPath and retryWithBackoff.               *)
(* Every asynchronous method is split at its await: the part that runs up  *)
(* to the hardware call (...Call) and the part that runs when the promise  *)
(* of the hardware call settles (...Resume).  JavaScript runs each part    *)
(* atomically, and any other handler may run between the two.              *)
(***************************************************************************)
EXTENDS Integers, Sequences, FiniteSets, TLC

(***************************************************************************)
(* Bounds of the model.                                                    *)
(***************************************************************************)
\* Number of KeycardService calls that may be awaiting the card at once.
NumSlots == 2
\* Number of NFCService operations that may be in progress at once.
NumNfcSlots == 2
\* VERIFY exchanges followed per session (answered + outstanding).
MaxVerify == 4

Slots == 1..NumSlots
NfcSlots == 1..NumNfcSlots

(***************************************************************************)
(* Optional values: null / undefined is the empty sequence.                *)
(***************************************************************************)
Null == <<>>
Some(x) == <<x>>

(***************************************************************************)
(* PINs are strings of characters.  The set holds a PIN of every class the *)
(* code distinguishes: too short, 4 digits, 5 digits, 6 digits, too long,  *)
(* non-digit.                                                              *)
(***************************************************************************)
Digits == {"0", "1", "2", "3", "4", "5", "6", "7", "8", "9"}
Pins == { <<"1", "2", "3">>,
          <<"1", "2", "3", "4">>,
          <<"1", "2", "3", "4", "5">>,
          <<"1", "2", "3", "4", "5", "6">>,
          <<"1", "2", "3", "4", "5", "6", "7">>,
          <<"1", "2", "a", "4">> }
NoPin == <<>>

\* /^\d{4,6}$/.test(pin)
PinFormatOK(pin) == Len(pin) >= 4 /\ Len(pin) <= 6 /\ \A i \in 1..Len(pin) : pin[i] \in Digits

\* sendPinVerificationCommand: resolve(pin.length === 4 || pin.length === 6)
SendPinVerificationCommand(pin) == Len(pin) = 4 \/ Len(pin) = 6

VARIABLES
    isConnected,   \* KeycardService.isConnected
    cardStatus,    \* KeycardService.cardStatus: Null or Some(KeycardStatus)
    calls,         \* the KeycardService calls awaiting the card, per slot
    lastResult,    \* what the call that settled last returned or threw
    log,           \* VERIFY outcomes since the last initializeKeycard/disconnect
    cardLocked,    \* history: some session's pinRetries has reached 0
    priorVerified, \* history: a verifyPin succeeded in a session since disconnected
    staleVerify,   \* history: slots whose verifyPin was awaiting at a disconnect
    nfcInitialized, \* NFCService.isInitialized
    nfcOps,        \* the NFCService operations awaiting a transceive, per slot
    nfcLast,       \* what the NFCService operation that settled last returned or threw
    activityIntent, \* NFCModule: EXTRA_TAG of getCurrentActivity().getIntent()
    tagPresent,    \* the tag of that intent is in the field
    isoDep,        \* NFCModule.isoDep: Null or Some(the IsoDep handle)
    foregroundDispatch, \* the NfcAdapter dispatches tags to the activity
    modLast,       \* how the NFCModule promise that settled last was settled
    signAborted,   \* history: a SIGN transceive has thrown since the last connect
    reactReady,    \* MainActivity: getCurrentReactContext() is there
    lastIntent,    \* the intent handleIntent ran on last, and the events it sent
    emitted,       \* the names of the events emitted to JavaScript so far
    apduIn,        \* formatAPDU: the KeycardAPDU it was last called with
    apduHex,       \* formatAPDU: the hex string it returned
    pathIn,        \* parseDerivationPath: the path it was last called with
    pathOut,       \* parseDerivationPath: what it returned or threw
    retry          \* retryWithBackoff: the call in progress or settled last

keycardVars == <<isConnected, cardStatus, calls, lastResult, log, cardLocked, priorVerified,
                 staleVerify>>
nfcVars == <<nfcInitialized, nfcOps, nfcLast>>
moduleVars == <<activityIntent, tagPresent, isoDep, foregroundDispatch, modLast, signAborted>>
activityVars == <<reactReady, lastIntent, emitted>>
utilVars == <<apduIn, apduHex, pathIn, pathOut, retry>>
vars == <<keycardVars, nfcVars, moduleVars, activityVars, utilVars>>

\* The KeycardStatus object initializeKeycard creates.
InitialRetries == 3
InitialPukRetries == 5
FreshStatus == [initialized |-> TRUE, pinRetries |-> InitialRetries,
                pukRetries |-> InitialPukRetries, version |-> "3.4"]

IdleCall == [op |-> "idle", pin |-> NoPin]
Result(op, outcome, retries) == [op |-> op, outcome |-> outcome, retries |-> retries]

\* this.cardStatus.pinRetries--
DecrementRetries(cs) == [cs EXCEPT !.pinRetries = @ - 1]

\* The error verifyPin throws after a failed VERIFY, given the cardStatus left
\* by the decrement: "Keycard locked" exactly at 0, else "n attempts remaining"
\* (n is undefined when cardStatus is null).
\* (the lock test written with < instead of ===: locked is first reported on
\* the failure after the one that takes the counter to 0)
FailureOutcomeLate(st) == IF st # Null /\ st[1].pinRetries < 0 THEN "Locked" ELSE "Retry"
FailureOutcome(st) == IF st # Null /\ st[1].pinRetries = 0 THEN "Locked" ELSE "Retry"
FailureRetries(st) == IF st = Null THEN Null ELSE Some(st[1].pinRetries)

InFlight(op) == {s \in Slots : calls[s].op = op}

\* The NFCService operations that send SELECT and then one command.
NfcOpKinds == {"getKeycardStatus", "verifyPin", "getPublicKey", "signData"}
\* What NfcManager.transceive settles with: a response ending in a status
\* word (success, or an error such as 6A82 "application not found"), or a
\* rejection (tag lost).
StatusWords == {"9000", "6a82"}
\* Responses of fewer than two bytes (hex): one byte, none.
ShortResponses == {"90", ""}
Responses == StatusWords \cup ShortResponses
Rejected == "rejected"
IdleOp == [op |-> "idle", stage |-> "idle", selectSw |-> "none"]

\* What EXTRA_TAG of the activity's intent can be: absent, a tag with the
\* IsoDep technology, a tag without it (IsoDep.get(tag) is null).
TagKinds == {"none", "isoDep", "other"}
NotLaunched == "notLaunched"
\* The APDUs a caller hands to NFCModule.sendAPDU.
ApduKinds == {"SELECT", "VERIFY", "SIGN"}
\* What isoDep.transceive does: returns the response, throws an IOException
\* with the tag still in the field, or throws because the tag has left it.
TransceiveOutcomes == {"response", "ioError", "tagLost"}
\* What isoDep.close() does: returns, or throws with the handle left closed
\* or left open.
CloseOutcomes == {"closed", "threwClosed", "threwOpen"}
ModResult(op, outcome, cmd) == [op |-> op, outcome |-> outcome, cmd |-> cmd]

\* An intent handed to MainActivity.handleIntent, with what IsoDep.connect()
\* did on its tag and the events handleIntent sent to JavaScript for it.
Intent(kind, connectOk, events) == [kind |-> kind, connectOk |-> connectOk, events |-> events]
NoIntent == Intent("none", FALSE, <<>>)
\* The elements of a sequence.
Range(seq) == {seq[i] : i \in 1..Len(seq)}

(***************************************************************************)
(* Hex strings are sequences of characters, a hex digit being its value    *)
(* 0..15.                                                                  *)
(***************************************************************************)
HexDigit(c) == c \in 0..15
\* n times the digit c
Repeat(c, n) == [i \in 1..n |-> c]

\* byteToHex: ('0' + byte.toString(16)).slice(-2), the last two hex digits
ByteToHex(byte) == <<(byte \div 16) % 16, byte % 16>>

\* Buffer.from(str, 'hex'): the bytes of the leading pairs of hex digits;
\* decoding stops at the first pair that is not two hex digits.
BufferFromHex(str) ==
    LET bad == {k \in 1..Len(str) : ~HexDigit(str[k])}
        firstBad == IF bad = {} THEN Len(str) + 1
                    ELSE CHOOSE k \in bad : \A m \in bad : k <= m
        count == (firstBad - 1) \div 2
    IN [k \in 1..count |-> 16 * str[2 * k - 1] + str[2 * k]]

\* NFCService.formatAPDU
FormatAPDU(apdu) ==
    ByteToHex(apdu.cla) \o ByteToHex(apdu.ins) \o ByteToHex(apdu.p1) \o ByteToHex(apdu.p2)
      \o (IF apdu.data # <<>>
          THEN ByteToHex(Len(BufferFromHex(apdu.data))) \o apdu.data
          ELSE <<0, 0>>)
      \o (IF apdu.le # Null THEN ByteToHex(apdu.le[1]) ELSE <<>>)

\* The KeycardAPDU objects formatAPDU is given: data is a hex string, empty
\* or absent (both falsy), of 1, 1.5, 7, 255 or 256 bytes; le a number or
\* absent.
ApduData == { <<>>, Repeat(10, 2), Repeat(10, 3), Repeat(10, 14), Repeat(10, 510),
              Repeat(10, 512) }
ApduLe == {Null, Some(0), Some(256)}
Apdus == [cla : {0, 128}, ins : {32, 164, 192, 242}, p1 : {0, 4}, p2 : {0},
          data : ApduData, le : ApduLe]
NoApdu == [cla |-> 0, ins |-> 0, p1 |-> 0, p2 |-> 0, data |-> <<>>, le |-> Null]

(***************************************************************************)
(* Derivation paths are strings of characters.  Numbers that do not fit    *)
(* 31 bits are kept as two digits to the base 2^16: hi * 2^16 + lo.        *)
(***************************************************************************)
Word == 65536
Num(hi, lo) == [hi |-> hi, lo |-> lo]
NaN == [hi |-> -1, lo |-> -1]
\* n * 10 + d
TimesTenPlus(n, d) == Num(n.hi * 10 + (n.lo * 10 + d) \div Word, (n.lo * 10 + d) % Word)
\* index + 0x80000000 (a JavaScript number: no wrap at 32 bits)
AddHardenedBit(n) == Num(n.hi + 32768, n.lo)
\* n < hi * 2^16
Below(n, hi) == n.hi >= 0 /\ n.hi < hi

DigitValue(c) ==
    CASE c = "0" -> 0 [] c = "1" -> 1 [] c = "2" -> 2 [] c = "3" -> 3 [] c = "4" -> 4
      [] c = "5" -> 5 [] c = "6" -> 6 [] c = "7" -> 7 [] c = "8" -> 8 [] c = "9" -> 9

\* The first position from i on that holds no digit.
RECURSIVE DigitsEnd(_, _)
DigitsEnd(str, i) ==
    IF i <= Len(str) /\ str[i] \in Digits THEN DigitsEnd(str, i + 1) ELSE i

\* (\/\d+'?)*$ from position i
RECURSIVE MatchComponents(_, _)
MatchComponents(path, i) ==
    IF i > Len(path) THEN TRUE
    ELSE /\ path[i] = "/"
         /\ LET j == DigitsEnd(path, i + 1)
            IN /\ j > i + 1
               /\ \/ MatchComponents(path, j)
                  \/ j <= Len(path) /\ path[j] = "'" /\ MatchComponents(path, j + 1)

\* isValidDerivationPath: /^m(\/\d+'?)*$/.test(path)
IsValidDerivationPath(path) ==
    Len(path) >= 1 /\ path[1] = "m" /\ MatchComponents(path, 2)

\* The position of the first c in str from i on, Len(str) + 1 if there is none.
RECURSIVE IndexOf(_, _, _)
IndexOf(str, c, i) ==
    IF i > Len(str) \/ str[i] = c THEN i ELSE IndexOf(str, c, i + 1)

\* path.split('/')
RECURSIVE Split(_)
Split(str) ==
    LET k == IndexOf(str, "/", 1)
    IN IF k > Len(str) THEN <<str>>
       ELSE <<SubSeq(str, 1, k - 1)>> \o Split(SubSeq(str, k + 1, Len(str)))

\* part.endsWith("'")
Hardened(part) == Len(part) >= 1 /\ part[Len(part)] = "'"
\* part.replace("'", ''): the first quote is taken out
WithoutQuote(part) ==
    LET k == IndexOf(part, "'", 1)
    IN IF k > Len(part) THEN part
       ELSE SubSeq(part, 1, k - 1) \o SubSeq(part, k + 1, Len(part))

\* parseInt(str, 10): the number of the leading digits, NaN without any
RECURSIVE ParseDigits(_, _, _)
ParseDigits(str, i, acc) ==
    IF i <= Len(str) /\ str[i] \in Digits
    THEN ParseDigits(str, i + 1, TimesTenPlus(acc, DigitValue(str[i])))
    ELSE acc
ParseInt(str) ==
    IF Len(str) >= 1 /\ str[1] \in Digits THEN ParseDigits(str, 1, Num(0, 0)) ELSE NaN

\* path.split('/').slice(1)
PathParts(path) == Tail(Split(path))

PathResult(status, indices) == [status |-> status, indices |-> indices]
NoPath == PathResult("none", <<>>)
\* parseDerivationPath
ParseDerivationPath(path) ==
    IF ~IsValidDerivationPath(path) THEN PathResult("Invalid", <<>>)
    ELSE LET parts == PathParts(path)
         IN PathResult("Ok", [i \in 1..Len(parts) |->
                LET index == ParseInt(WithoutQuote(parts[i]))
                IN IF Hardened(parts[i]) THEN AddHardenedBit(index) ELSE index])

\* The components the input paths are made of: small indices, the largest
\* 31-bit index and the first beyond it, plain and hardened, 2^32, and
\* components the pattern refuses.
PathComponents ==
    { <<"0">>,
      <<"4", "4">>,
      <<"6", "0", "'">>,
      <<"0", "'">>,
      <<"2", "1", "4", "7", "4", "8", "3", "6", "4", "7">>,
      <<"2", "1", "4", "7", "4", "8", "3", "6", "4", "8">>,
      <<"2", "1", "4", "7", "4", "8", "3", "6", "4", "7", "'">>,
      <<"2", "1", "4", "7", "4", "8", "3", "6", "4", "8", "'">>,
      <<"4", "2", "9", "4", "9", "6", "7", "2", "9", "6">>,
      <<>>,
      <<"a">>,
      <<"1", "'", "'">> }
\* The input paths: up to MaxPathDepth components after m, and one without m.
MaxPathDepth == 2
RECURSIVE PathsOfDepth(_)
PathsOfDepth(n) ==
    IF n = 0 THEN {<<"m">>}
    ELSE {p \o <<"/">> \o c : p \in PathsOfDepth(n - 1), c \in PathComponents}
Paths == UNION {PathsOfDepth(n) : n \in 0..MaxPathDepth} \cup {<<"4", "4", "'", "/", "0">>}

(***************************************************************************)
(* retryWithBackoff: a call and where it stands.  fnLog holds how the      *)
(* invocations of fn settled (TRUE resolved, FALSE rejected); outcome is   *)
(* what the call returned or threw, of invocation number `by`.             *)
(***************************************************************************)
\* The largest maxRetries a call is given.
MaxRetriesIn == 4
RetryDelays == {0, 1, 500, 1000}
IdleRetry == [phase |-> "idle", maxRetries |-> 0, initialDelay |-> 0, i |-> 0,
              invoked |-> 0, delay |-> 0, fnLog |-> <<>>, outcome |-> "none", by |-> 0]
\* Math.pow(2, i)
RECURSIVE Pow2(_)
Pow2(i) == IF i = 0 THEN 1 ELSE 2 * Pow2(i - 1)

Init ==
    /\ isConnected = FALSE
    /\ cardStatus = Null
    /\ calls = [s \in Slots |-> IdleCall]
    /\ lastResult = Result("none", "none", Null)
    /\ log = <<>>
    /\ cardLocked = FALSE
    /\ priorVerified = FALSE
    /\ staleVerify = {}
    /\ nfcInitialized = FALSE
    /\ nfcOps = [s \in NfcSlots |-> IdleOp]
    /\ nfcLast = [op |-> "none", outcome |-> "none"]
    /\ activityIntent = NotLaunched
    /\ tagPresent = FALSE
    /\ isoDep = Null
    /\ foregroundDispatch = FALSE
    /\ modLast = ModResult("none", "none", "none")
    /\ signAborted = FALSE
    /\ reactReady = FALSE
    /\ lastIntent = NoIntent
    /\ emitted = {}
    /\ apduIn = NoApdu
    /\ apduHex = <<>>
    /\ pathIn = <<>>
    /\ pathOut = NoPath
    /\ retry = IdleRetry

(***************************************************************************)
(* KeycardService.initializeKeycard: nothing in the try block throws.      *)
(***************************************************************************)
InitializeKeycard ==
    /\ cardStatus' = Some(FreshStatus)
    /\ isConnected' = TRUE
    /\ lastResult' = Result("initializeKeycard", "Ok", Some(FreshStatus.pinRetries))
    /\ log' = <<>>
    /\ UNCHANGED <<calls, cardLocked>>
    /\ UNCHANGED <<priorVerified, staleVerify, nfcVars, moduleVars, activityVars, utilVars>>

(***************************************************************************)
(* KeycardService.verifyPin up to `await sendPinVerificationCommand(pin)`. *)
(***************************************************************************)
\* (a verifyPin without the format test: every PIN goes to the card)
VerifyPinCallUnchecked(s, pin) ==
    /\ calls[s] = IdleCall
    /\ IF ~isConnected
       THEN /\ lastResult' = Result("verifyPin", "NotConnected", Null)
            /\ UNCHANGED calls
       ELSE /\ Len(log) + Cardinality(InFlight("verifyPin")) < MaxVerify
            /\ calls' = [calls EXCEPT ![s] = [op |-> "verifyPin", pin |-> pin]]
            /\ UNCHANGED lastResult
    /\ UNCHANGED <<isConnected, cardStatus, log, cardLocked>>
    /\ UNCHANGED <<priorVerified, staleVerify, nfcVars, moduleVars, activityVars, utilVars>>

VerifyPinCall(s, pin) ==
    /\ calls[s] = IdleCall
    /\ IF ~isConnected
       THEN /\ lastResult' = Result("verifyPin", "NotConnected", Null)
            /\ UNCHANGED calls
       ELSE IF ~PinFormatOK(pin)
       THEN /\ lastResult' = Result("verifyPin", "PinFormat", Null)
            /\ UNCHANGED calls
       ELSE /\ Len(log) + Cardinality(InFlight("verifyPin")) < MaxVerify
            /\ calls' = [calls EXCEPT ![s] = [op |-> "verifyPin", pin |-> pin]]
            /\ UNCHANGED lastResult
    /\ UNCHANGED <<isConnected, cardStatus, log, cardLocked>>
    /\ UNCHANGED <<priorVerified, staleVerify, nfcVars, moduleVars, activityVars, utilVars>>

(***************************************************************************)
(* KeycardService.verifyPin after the await.                               *)
(***************************************************************************)
\* (a verifyPin that wraps the VERIFY in retryWithBackoff: a failure with
\* retries left is counted and the command sent again, nothing surfaces)
VerifyPinResumeRetrying(s) ==
    /\ calls[s].op = "verifyPin"
    /\ IF SendPinVerificationCommand(calls[s].pin)
       THEN /\ calls' = [calls EXCEPT ![s] = IdleCall]
            /\ lastResult' = Result("verifyPin", "Verified", Null)
            /\ log' = Append(log, [outcome |-> "Verified", retries |-> Null])
            /\ UNCHANGED <<cardStatus, cardLocked>>
       ELSE LET st == IF cardStatus = Null THEN Null
                      ELSE Some(DecrementRetries(cardStatus[1]))
            IN /\ cardStatus' = st
               /\ IF st # Null /\ st[1].pinRetries > 0
                  THEN UNCHANGED <<calls, lastResult, log, cardLocked>>
                  ELSE /\ calls' = [calls EXCEPT ![s] = IdleCall]
                       /\ lastResult' = Result("verifyPin", FailureOutcome(st), FailureRetries(st))
                       /\ log' = Append(log, [outcome |-> FailureOutcome(st),
                                              retries |-> FailureRetries(st)])
                       /\ cardLocked' = (cardLocked \/ FailureOutcome(st) = "Locked")
    /\ UNCHANGED isConnected
    /\ staleVerify' = (IF calls'[s] = IdleCall THEN staleVerify \ {s} ELSE staleVerify)
    /\ UNCHANGED <<priorVerified, nfcVars, moduleVars, activityVars, utilVars>>

VerifyPinResume(s) ==
    /\ calls[s].op = "verifyPin"
    /\ calls' = [calls EXCEPT ![s] = IdleCall]
    /\ IF SendPinVerificationCommand(calls[s].pin)
       THEN /\ lastResult' = Result("verifyPin", "Verified", Null)
            /\ log' = Append(log, [outcome |-> "Verified", retries |-> Null])
            /\ UNCHANGED <<cardStatus, cardLocked>>
       ELSE LET st == IF cardStatus = Null THEN Null
                      ELSE Some(DecrementRetries(cardStatus[1]))
            IN /\ cardStatus' = st
               /\ lastResult' = Result("verifyPin", FailureOutcome(st), FailureRetries(st))
               /\ log' = Append(log, [outcome |-> FailureOutcome(st),
                                      retries |-> FailureRetries(st)])
               /\ cardLocked' = (cardLocked \/ FailureOutcome(st) = "Locked")
    /\ UNCHANGED isConnected
    /\ staleVerify' = (IF calls'[s] = IdleCall THEN staleVerify \ {s} ELSE staleVerify)
    /\ UNCHANGED <<priorVerified, nfcVars, moduleVars, activityVars, utilVars>>

(***************************************************************************)
(* KeycardService.disconnect                                               *)
(***************************************************************************)
Disconnect ==
    /\ isConnected' = FALSE
    /\ cardStatus' = Null
    /\ lastResult' = Result("disconnect", "Ok", Null)
    /\ log' = <<>>
    /\ priorVerified' = (priorVerified \/ \E i \in 1..Len(log) : log[i].outcome = "Verified")
    /\ staleVerify' = staleVerify \cup InFlight("verifyPin")
    /\ UNCHANGED <<calls, cardLocked>>
    /\ UNCHANGED <<nfcVars, moduleVars, activityVars, utilVars>>

(***************************************************************************)
(* KeycardService.getStatus: returns this.cardStatus.                      *)
(***************************************************************************)
\* (a getStatus that re-reads the card by re-creating the status object)
GetStatusRefreshing ==
    /\ cardStatus' = (IF cardStatus = Null THEN Null ELSE Some(FreshStatus))
    /\ lastResult' = Result("getStatus", "Status", FailureRetries(cardStatus'))
    /\ UNCHANGED <<isConnected, calls, log, cardLocked, priorVerified, staleVerify, nfcVars, moduleVars, activityVars, utilVars>>

GetStatus ==
    /\ lastResult' = Result("getStatus", "Status", FailureRetries(cardStatus))
    /\ UNCHANGED <<isConnected, cardStatus, calls, log, cardLocked, priorVerified, staleVerify, nfcVars, moduleVars, activityVars, utilVars>>

(***************************************************************************)
(* KeycardService.derivePublicKey, signTransaction and signMessage up to   *)
(* their await of sendDerivationCommand / sendSigningCommand.  The only    *)
(* check before the hardware call is isConnected.  signTransaction first   *)
(* serializes the transaction (ethers.Transaction.from), which throws on a *)
(* malformed transaction object: txOk is whether it serializes.            *)
(***************************************************************************)
DerivePublicKeyCall(s) ==
    /\ calls[s] = IdleCall
    /\ IF ~isConnected
       THEN /\ lastResult' = Result("derivePublicKey", "NotConnected", Null)
            /\ UNCHANGED calls
       ELSE /\ calls' = [calls EXCEPT ![s] = [op |-> "derivePublicKey", pin |-> NoPin]]
            /\ UNCHANGED lastResult
    /\ UNCHANGED <<isConnected, cardStatus, log, cardLocked>>
    /\ UNCHANGED <<priorVerified, staleVerify, nfcVars, moduleVars, activityVars, utilVars>>

SignTransactionCall(s, txOk) ==
    /\ calls[s] = IdleCall
    /\ IF ~isConnected
       THEN /\ lastResult' = Result("signTransaction", "NotConnected", Null)
            /\ UNCHANGED calls
       ELSE IF ~txOk
       THEN /\ lastResult' = Result("signTransaction", "BadTransaction", Null)
            /\ UNCHANGED calls
       ELSE /\ calls' = [calls EXCEPT ![s] = [op |-> "signTransaction", pin |-> NoPin]]
            /\ UNCHANGED lastResult
    /\ UNCHANGED <<isConnected, cardStatus, log, cardLocked>>
    /\ UNCHANGED <<priorVerified, staleVerify, nfcVars, moduleVars, activityVars, utilVars>>

SignMessageCall(s) ==
    /\ calls[s] = IdleCall
    /\ IF ~isConnected
       THEN /\ lastResult' = Result("signMessage", "NotConnected", Null)
            /\ UNCHANGED calls
       ELSE /\ calls' = [calls EXCEPT ![s] = [op |-> "signMessage", pin |-> NoPin]]
            /\ UNCHANGED lastResult
    /\ UNCHANGED <<isConnected, cardStatus, log, cardLocked>>
    /\ UNCHANGED <<priorVerified, staleVerify, nfcVars, moduleVars, activityVars, utilVars>>

(***************************************************************************)
(* The same three methods after the await: sendDerivationCommand and       *)
(* sendSigningCommand always resolve (mock key, mock signature), and the   *)
(* method returns what they resolved to.  No field is read or written.     *)
(***************************************************************************)
DerivePublicKeyResume(s) ==
    /\ calls[s].op = "derivePublicKey"
    /\ calls' = [calls EXCEPT ![s] = IdleCall]
    /\ lastResult' = Result("derivePublicKey", "PublicKey", Null)
    /\ UNCHANGED <<isConnected, cardStatus, log, cardLocked>>
    /\ UNCHANGED <<priorVerified, staleVerify, nfcVars, moduleVars, activityVars, utilVars>>

SignTransactionResume(s) ==
    /\ calls[s].op = "signTransaction"
    /\ calls' = [calls EXCEPT ![s] = IdleCall]
    /\ lastResult' = Result("signTransaction", "Signature", Null)
    /\ UNCHANGED <<isConnected, cardStatus, log, cardLocked>>
    /\ UNCHANGED <<priorVerified, staleVerify, nfcVars, moduleVars, activityVars, utilVars>>

SignMessageResume(s) ==
    /\ calls[s].op = "signMessage"
    /\ calls' = [calls EXCEPT ![s] = IdleCall]
    /\ lastResult' = Result("signMessage", "Signature", Null)
    /\ UNCHANGED <<isConnected, cardStatus, log, cardLocked>>
    /\ UNCHANGED <<priorVerified, staleVerify, nfcVars, moduleVars, activityVars, utilVars>>

KeycardNext ==
    \/ InitializeKeycard
    \/ \E s \in Slots, pin \in Pins : VerifyPinCall(s, pin)
    \/ \E s \in Slots : VerifyPinResume(s)
    \/ \E s \in Slots : DerivePublicKeyCall(s)
    \/ \E s \in Slots : DerivePublicKeyResume(s)
    \/ \E s \in Slots, txOk \in BOOLEAN : SignTransactionCall(s, txOk)
    \/ \E s \in Slots : SignTransactionResume(s)
    \/ \E s \in Slots : SignMessageCall(s)
    \/ \E s \in Slots : SignMessageResume(s)
    \/ Disconnect
    \/ GetStatus

Spec == Init /\ [][KeycardNext]_vars

(***************************************************************************)
(* NFCService.initialize (NfcManager.start() resolves or rejects) and      *)
(* NFCService.cleanup (isScanning is false outside startScanning).         *)
(***************************************************************************)
NfcInitialize(started) ==
    /\ IF started
       THEN /\ nfcInitialized' = TRUE
            /\ nfcLast' = [op |-> "initialize", outcome |-> "Ok"]
       ELSE /\ nfcLast' = [op |-> "initialize", outcome |-> "StartFailed"]
            /\ UNCHANGED nfcInitialized
    /\ UNCHANGED nfcOps
    /\ UNCHANGED <<keycardVars, moduleVars, activityVars, utilVars>>

NfcCleanup ==
    /\ nfcInitialized' = FALSE
    /\ nfcLast' = [op |-> "cleanup", outcome |-> "Ok"]
    /\ UNCHANGED nfcOps
    /\ UNCHANGED <<keycardVars, moduleVars, activityVars, utilVars>>

(***************************************************************************)
(* getKeycardStatus / verifyPin / getPublicKey / signData up to the await  *)
(* of selectKeycard(): sendAPDU(SELECT) throws when the service is not     *)
(* initialized, else hands the SELECT frame to NfcManager.transceive.      *)
(***************************************************************************)
NfcOpCall(s, op) ==
    /\ nfcOps[s] = IdleOp
    /\ IF ~nfcInitialized
       THEN /\ nfcLast' = [op |-> op, outcome |-> "NotInitialized"]
            /\ UNCHANGED nfcOps
       ELSE /\ nfcOps' = [nfcOps EXCEPT ![s] = [op |-> op, stage |-> "select", selectSw |-> "none"]]
            /\ UNCHANGED nfcLast
    /\ UNCHANGED nfcInitialized
    /\ UNCHANGED <<keycardVars, moduleVars, activityVars, utilVars>>

(***************************************************************************)
(* The SELECT transceive settles.  A rejection is rethrown by sendAPDU and *)
(* ends the operation.  A response is returned by selectKeycard and        *)
(* dropped by the operation, whatever its status word; the operation goes  *)
(* on to sendAPDU(command), which again checks isInitialized.              *)
(***************************************************************************)
NfcSelectReturn(s, resp) ==
    /\ nfcOps[s].stage = "select"
    /\ IF resp = Rejected
       THEN /\ nfcLast' = [op |-> nfcOps[s].op, outcome |-> "TransportError"]
            /\ nfcOps' = [nfcOps EXCEPT ![s] = IdleOp]
       ELSE IF ~nfcInitialized
       THEN /\ nfcLast' = [op |-> nfcOps[s].op, outcome |-> "NotInitialized"]
            /\ nfcOps' = [nfcOps EXCEPT ![s] = IdleOp]
       ELSE /\ nfcOps' = [nfcOps EXCEPT ![s] = [@ EXCEPT !.stage = "command", !.selectSw = resp]]
            /\ UNCHANGED nfcLast
    /\ UNCHANGED nfcInitialized
    /\ UNCHANGED <<keycardVars, moduleVars, activityVars, utilVars>>

(***************************************************************************)
(* The command's transceive settles: the response hex is returned as it    *)
(* is, a rejection is rethrown.                                            *)
(***************************************************************************)
NfcCommandReturn(s, resp) ==
    /\ nfcOps[s].stage = "command"
    /\ nfcOps' = [nfcOps EXCEPT ![s] = IdleOp]
    /\ nfcLast' = [op |-> nfcOps[s].op,
                   outcome |-> IF resp = Rejected THEN "TransportError" ELSE resp]
    /\ UNCHANGED nfcInitialized
    /\ UNCHANGED <<keycardVars, moduleVars, activityVars, utilVars>>

NfcNext ==
    \/ \E started \in BOOLEAN : NfcInitialize(started)
    \/ NfcCleanup
    \/ \E s \in NfcSlots, op \in NfcOpKinds : NfcOpCall(s, op)
    \/ \E s \in NfcSlots, resp \in Responses \cup {Rejected} : NfcSelectReturn(s, resp)
    \/ \E s \in NfcSlots, resp \in Responses \cup {Rejected} : NfcCommandReturn(s, resp)

SpecNFC == Init /\ [][NfcNext]_vars

(***************************************************************************)
(* NFCModule (Android).  Each @ReactMethod runs to its promise's           *)
(* settlement in one step.                                                 *)
(***************************************************************************)
\* isoDep != null && isoDep.isConnected()
ModuleConnected == isoDep # Null /\ isoDep[1].connected

(***************************************************************************)
(* MainActivity.sendEvent: emits through the current React context; with   *)
(* no context the exception is caught and logged, the event is dropped.    *)
(***************************************************************************)
SendEvent(ready, name) == IF ready THEN <<name>> ELSE <<>>

(***************************************************************************)
(* MainActivity.handleIntent / handleKeycardDetected: the events sent for  *)
(* a discovered tag.  A tag without IsoDep is logged and left; connect()   *)
(* throwing gives NFCError; else NFCTagDetected is sent, the handle is     *)
(* closed, and close() throwing lands in the same catch: NFCError.         *)
(***************************************************************************)
HandleIntent(ready, kind, connectOk, closeOk) ==
    IF kind # "isoDep" THEN <<>>
    ELSE IF ~connectOk THEN SendEvent(ready, "NFCError")
    ELSE IF closeOk THEN SendEvent(ready, "NFCTagDetected")
    ELSE SendEvent(ready, "NFCTagDetected") \o SendEvent(ready, "NFCError")

(***************************************************************************)
(* The React context comes up (asynchronously to the activity).            *)
(***************************************************************************)
ReactContextCreated ==
    /\ ~reactReady
    /\ reactReady' = TRUE
    /\ UNCHANGED <<lastIntent, emitted>>
    /\ UNCHANGED <<keycardVars, nfcVars, moduleVars, utilVars>>

(***************************************************************************)
(* MainActivity.onCreate: the activity starts with its intent and runs     *)
(* handleIntent(getIntent()).  onNewIntent does not call setIntent, so     *)
(* getIntent() is this intent from then on.                                *)
(***************************************************************************)
LaunchActivity(kind, connectOk, closeOk) ==
    /\ activityIntent = NotLaunched
    /\ activityIntent' = kind
    /\ tagPresent' = (kind # "none")
    /\ lastIntent' = Intent(kind, kind = "isoDep" /\ connectOk,
                            HandleIntent(reactReady, kind, connectOk, closeOk))
    /\ emitted' = emitted \cup Range(lastIntent'.events)
    /\ UNCHANGED <<isoDep, foregroundDispatch, modLast, signAborted>>
    /\ UNCHANGED reactReady
    /\ UNCHANGED <<keycardVars, nfcVars, utilVars>>

(***************************************************************************)
(* MainActivity.onNewIntent: handleIntent(intent) on a later intent.       *)
(***************************************************************************)
OnNewIntent(kind, connectOk, closeOk) ==
    /\ activityIntent # NotLaunched
    /\ lastIntent' = Intent(kind, kind = "isoDep" /\ connectOk,
                            HandleIntent(reactReady, kind, connectOk, closeOk))
    /\ emitted' = emitted \cup Range(lastIntent'.events)
    /\ UNCHANGED reactReady
    /\ UNCHANGED <<keycardVars, nfcVars, moduleVars, utilVars>>

(***************************************************************************)
(* NFCModule.enableNFCForegroundDispatch / disableNFCForegroundDispatch:   *)
(* rejected with ACTIVITY_ERROR when there is no current activity (the     *)
(* device has an NFC adapter).                                             *)
(***************************************************************************)
SetNFCForegroundDispatch(enable) ==
    /\ IF activityIntent = NotLaunched
       THEN /\ modLast' = ModResult(IF enable THEN "enableDispatch" ELSE "disableDispatch",
                                    "ActivityError", "none")
            /\ UNCHANGED foregroundDispatch
       ELSE /\ foregroundDispatch' = enable
            /\ modLast' = ModResult(IF enable THEN "enableDispatch" ELSE "disableDispatch",
                                    "Ok", "none")
    /\ UNCHANGED <<activityIntent, tagPresent, isoDep, signAborted>>
    /\ UNCHANGED <<keycardVars, nfcVars, activityVars, utilVars>>

(***************************************************************************)
(* The tag leaves the field: a handle on it reports isConnected() false.   *)
(***************************************************************************)
TagLeaves ==
    /\ tagPresent
    /\ tagPresent' = FALSE
    /\ isoDep' = (IF isoDep = Null THEN Null ELSE Some([connected |-> FALSE]))
    /\ UNCHANGED <<activityIntent, foregroundDispatch, modLast, signAborted>>
    /\ UNCHANGED <<keycardVars, nfcVars, activityVars, utilVars>>

(***************************************************************************)
(* NFCModule.connectToTag: isoDep is assigned IsoDep.get(tag) before       *)
(* anything is checked; connect() throws an IOException when the tag is    *)
(* not there, and may throw when it is.                                    *)
(***************************************************************************)
ConnectToTag(connectOk) ==
    /\ activityIntent # NotLaunched
    /\ IF activityIntent = "none"
       THEN /\ modLast' = ModResult("connectToTag", "NoTag", "none")
            /\ UNCHANGED <<isoDep, signAborted>>
       ELSE IF activityIntent = "other"
       THEN /\ isoDep' = Null
            /\ modLast' = ModResult("connectToTag", "NoIsoDep", "none")
            /\ UNCHANGED signAborted
       ELSE IF connectOk /\ tagPresent
       THEN /\ isoDep' = Some([connected |-> TRUE])
            /\ modLast' = ModResult("connectToTag", "Ok", "none")
            /\ signAborted' = FALSE
       ELSE /\ isoDep' = Some([connected |-> FALSE])
            /\ modLast' = ModResult("connectToTag", "IoError", "none")
            /\ UNCHANGED signAborted
    /\ UNCHANGED <<activityIntent, tagPresent, foregroundDispatch>>
    /\ UNCHANGED <<keycardVars, nfcVars, activityVars, utilVars>>

(***************************************************************************)
(* NFCModule.disconnectTag: closes and forgets a connected handle, else    *)
(* does nothing; an exception of close() skips `isoDep = null` and         *)
(* rejects the promise.                                                    *)
(***************************************************************************)
DisconnectTag(closeOutcome) ==
    /\ IF ~ModuleConnected
       THEN /\ modLast' = ModResult("disconnectTag", "Ok", "none")
            /\ UNCHANGED isoDep
       ELSE IF closeOutcome = "closed"
       THEN /\ isoDep' = Null
            /\ modLast' = ModResult("disconnectTag", "Ok", "none")
       ELSE /\ isoDep' = Some([connected |-> (closeOutcome = "threwOpen")])
            /\ modLast' = ModResult("disconnectTag", "NfcError", "none")
    /\ UNCHANGED <<activityIntent, tagPresent, foregroundDispatch, signAborted>>
    /\ UNCHANGED <<keycardVars, nfcVars, activityVars, utilVars>>

(***************************************************************************)
(* NFCModule.sendAPDU: rejects when there is no connected handle, else     *)
(* transceives; an exception rejects with APDU_ERROR and isoDep is left    *)
(* as it is.                                                               *)
(***************************************************************************)
\* (a sendAPDU that tests only isoDep == null, not isConnected())
SendAPDUUnchecked(cmd, outcome) ==
    /\ IF isoDep = Null
       THEN /\ modLast' = ModResult("sendAPDU", "NotConnected", cmd)
            /\ UNCHANGED <<isoDep, tagPresent, signAborted>>
       ELSE IF outcome = "response"
       THEN /\ modLast' = ModResult("sendAPDU", "Response", cmd)
            /\ UNCHANGED <<isoDep, tagPresent, signAborted>>
       ELSE /\ modLast' = ModResult("sendAPDU", "ApduError", cmd)
            /\ signAborted' = (signAborted \/ cmd = "SIGN")
            /\ tagPresent' = (outcome # "tagLost")
            /\ isoDep' = Some([connected |-> (outcome # "tagLost")])
    /\ UNCHANGED <<activityIntent, foregroundDispatch>>
    /\ UNCHANGED <<keycardVars, nfcVars, activityVars, utilVars>>

SendAPDU(cmd, outcome) ==
    /\ IF ~ModuleConnected
       THEN /\ modLast' = ModResult("sendAPDU", "NotConnected", cmd)
            /\ UNCHANGED <<isoDep, tagPresent, signAborted>>
       ELSE IF outcome = "response"
       THEN /\ modLast' = ModResult("sendAPDU", "Response", cmd)
            /\ UNCHANGED <<isoDep, tagPresent, signAborted>>
       ELSE /\ modLast' = ModResult("sendAPDU", "ApduError", cmd)
            /\ signAborted' = (signAborted \/ cmd = "SIGN")
            /\ tagPresent' = (outcome # "tagLost")
            /\ isoDep' = Some([connected |-> (outcome # "tagLost")])
    /\ UNCHANGED <<activityIntent, foregroundDispatch>>
    /\ UNCHANGED <<keycardVars, nfcVars, activityVars, utilVars>>

ModuleNext ==
    \/ ReactContextCreated
    \/ \E kind \in TagKinds, connectOk, closeOk \in BOOLEAN : LaunchActivity(kind, connectOk, closeOk)
    \/ \E kind \in TagKinds, connectOk, closeOk \in BOOLEAN : OnNewIntent(kind, connectOk, closeOk)
    \/ \E enable \in BOOLEAN : SetNFCForegroundDispatch(enable)
    \/ TagLeaves
    \/ \E connectOk \in BOOLEAN : ConnectToTag(connectOk)
    \/ \E closeOutcome \in CloseOutcomes : DisconnectTag(closeOutcome)
    \/ \E cmd \in ApduKinds, outcome \in TransceiveOutcomes : SendAPDU(cmd, outcome)

SpecModule == Init /\ [][ModuleNext]_vars

(***************************************************************************)
(* NFCService.formatAPDU applied to a KeycardAPDU.                         *)
(***************************************************************************)
FormatAPDUCall(apdu) ==
    /\ apduIn' = apdu
    /\ apduHex' = FormatAPDU(apdu)
    /\ UNCHANGED <<pathIn, pathOut, retry>>
    /\ UNCHANGED <<keycardVars, nfcVars, moduleVars, activityVars>>

ApduNext == \E apdu \in Apdus : FormatAPDUCall(apdu)

SpecAPDU == Init /\ [][ApduNext]_vars

(***************************************************************************)
(* parseDerivationPath applied to a path.                                  *)
(***************************************************************************)
ParseDerivationPathCall(path) ==
    /\ pathIn' = path
    /\ pathOut' = ParseDerivationPath(path)
    /\ UNCHANGED <<apduIn, apduHex, retry>>
    /\ UNCHANGED <<keycardVars, nfcVars, moduleVars, activityVars>>

PathNext == \E path \in Paths : ParseDerivationPathCall(path)

SpecPath == Init /\ [][PathNext]_vars

(***************************************************************************)
(* retryWithBackoff up to its first await: the loop is entered when        *)
(* 0 < maxRetries and fn is invoked; else 'Max retries exceeded' is thrown.*)
(***************************************************************************)
RetryWithBackoffCall(maxRetries, initialDelay) ==
    /\ retry.phase \in {"idle", "returned", "threw"}
    /\ retry' = IF 0 < maxRetries
                THEN [IdleRetry EXCEPT !.phase = "awaitFn", !.maxRetries = maxRetries,
                                       !.initialDelay = initialDelay, !.invoked = 1]
                ELSE [IdleRetry EXCEPT !.phase = "threw", !.maxRetries = maxRetries,
                                       !.initialDelay = initialDelay,
                                       !.outcome = "MaxRetriesExceeded"]
    /\ UNCHANGED <<apduIn, apduHex, pathIn, pathOut>>
    /\ UNCHANGED <<keycardVars, nfcVars, moduleVars, activityVars>>

(***************************************************************************)
(* The promise of fn() settles: its value is returned; its error is        *)
(* rethrown in the last round, else the backoff timer is started.          *)
(***************************************************************************)
\* (the last round tested with i === maxRetries)
FnSettlesOffByOne(ok) ==
    /\ retry.phase = "awaitFn"
    /\ LET settled == Append(retry.fnLog, ok)
       IN retry' = IF ok
                   THEN [retry EXCEPT !.phase = "returned", !.fnLog = settled,
                                      !.outcome = "Value", !.by = Len(settled)]
                   ELSE IF retry.i = retry.maxRetries
                   THEN [retry EXCEPT !.phase = "threw", !.fnLog = settled,
                                      !.outcome = "Error", !.by = Len(settled)]
                   ELSE [retry EXCEPT !.phase = "sleeping", !.fnLog = settled,
                                      !.delay = retry.initialDelay * Pow2(retry.i)]
    /\ UNCHANGED <<apduIn, apduHex, pathIn, pathOut>>
    /\ UNCHANGED <<keycardVars, nfcVars, moduleVars, activityVars>>

FnSettles(ok) ==
    /\ retry.phase = "awaitFn"
    /\ LET settled == Append(retry.fnLog, ok)
       IN retry' = IF ok
                   THEN [retry EXCEPT !.phase = "returned", !.fnLog = settled,
                                      !.outcome = "Value", !.by = Len(settled)]
                   ELSE IF retry.i = retry.maxRetries - 1
                   THEN [retry EXCEPT !.phase = "threw", !.fnLog = settled,
                                      !.outcome = "Error", !.by = Len(settled)]
                   ELSE [retry EXCEPT !.phase = "sleeping", !.fnLog = settled,
                                      !.delay = retry.initialDelay * Pow2(retry.i)]
    /\ UNCHANGED <<apduIn, apduHex, pathIn, pathOut>>
    /\ UNCHANGED <<keycardVars, nfcVars, moduleVars, activityVars>>

(***************************************************************************)
(* The backoff timer fires: i++, and the loop invokes fn again while       *)
(* i < maxRetries; past the loop 'Max retries exceeded' is thrown.         *)
(***************************************************************************)
BackoffTimerFires ==
    /\ retry.phase = "sleeping"
    /\ retry' = IF retry.i + 1 < retry.maxRetries
                THEN [retry EXCEPT !.phase = "awaitFn", !.i = @ + 1, !.invoked = @ + 1]
                ELSE [retry EXCEPT !.phase = "threw", !.i = @ + 1,
                                   !.outcome = "MaxRetriesExceeded"]
    /\ UNCHANGED <<apduIn, apduHex, pathIn, pathOut>>
    /\ UNCHANGED <<keycardVars, nfcVars, moduleVars, activityVars>>

RetryNext ==
    \/ \E maxRetries \in 0..MaxRetriesIn, initialDelay \in RetryDelays :
          RetryWithBackoffCall(maxRetries, initialDelay)
    \/ \E ok \in BOOLEAN : FnSettles(ok)
    \/ BackoffTimerFires

SpecRetry == Init /\ [][RetryNext]_vars

\* fn's promise settles and a started timer fires.
SpecRetryLive ==
    /\ SpecRetry
    /\ WF_vars(\E ok \in BOOLEAN : FnSettles(ok))
    /\ WF_vars(BackoffTimerFires)

(***************************************************************************)
(* States and steps the properties speak of.                               *)
(***************************************************************************)
SignOps == {"signTransaction", "signMessage"}

\* The session is Locked: its retry counter has reached 0.
Locked == cardStatus # Null /\ cardStatus[1].pinRetries <= 0

\* A VERIFY has succeeded in this session (none is logged across a
\* disconnect or an initializeKeycard).
Authenticated == \E i \in 1..Len(log) : log[i].outcome = "Verified"

\* A signing exchange is awaiting the card's answer.
SigningInProgress == \E s \in Slots : calls[s].op \in SignOps

\* This step is a call of the given kind (whatever it goes on to do).
\* (verifyPin with a PIN of 4 to 6 digits: any other PIN is refused for its
\* format, before the session is looked at)
VerifyPinCalled == \E s \in Slots, pin \in Pins : PinFormatOK(pin) /\ VerifyPinCall(s, pin)
\* (a signing call of a well-formed request: a malformed transaction is
\* refused by the serializer before any check of the session)
SignCalled == \E s \in Slots : SignMessageCall(s) \/ SignTransactionCall(s, TRUE)
DeriveCalled == \E s \in Slots : DerivePublicKeyCall(s)

\* This step sends a command of kind op to the card.
HardwareCall(op) == \E s \in Slots : calls[s] = IdleCall /\ calls'[s].op = op

\* This step is a verifyPin call returning true / throwing after a failed VERIFY.
VerifySucceeded == (\E s \in Slots : VerifyPinResume(s)) /\ lastResult'.outcome = "Verified"
VerifyFailed == (\E s \in Slots : VerifyPinResume(s)) /\ lastResult'.outcome \in {"Retry", "Locked"}

\* The first k logged VERIFY outcomes of the session are all failures.
FirstFailed(k) == Len(log) >= k /\ \A i \in 1..k : log[i].outcome # "Verified"

(***************************************************************************)
(* C1: once the retry counter has reached 0, every further verifyPin call  *)
(* (here: with a well-formed PIN, valid or not) is rejected with           *)
(* CardLocked and sends no VERIFY to the card.                             *)
(***************************************************************************)
C1_LockedVerifyRejected ==
    [][(Locked /\ VerifyPinCalled)
         => (~HardwareCall("verifyPin") /\ lastResult'.outcome = "Locked")]_vars

C3_RetriesInRange ==
    cardStatus # Null => cardStatus[1].pinRetries \in 0..15

(***************************************************************************)
(* C4: a SIGN command is sent only in a session in which a verifyPin has   *)
(* succeeded (Authenticated), not merely in a connected one.               *)
(***************************************************************************)
C4_SignRequiresAuthenticated ==
    [][(\E op \in SignOps : HardwareCall(op)) => Authenticated]_vars

(***************************************************************************)
(* C5: in a Locked session every signing or key-derivation request is      *)
(* rejected with CardLocked and sends no command to the card.              *)
(***************************************************************************)
C5_LockedRejectsSignAndDerive ==
    [][(Locked /\ (SignCalled \/ DeriveCalled))
         => (calls' = calls /\ lastResult'.outcome = "Locked")]_vars

(***************************************************************************)
(* C6: lockout is terminal: once a session's counter has reached 0, no     *)
(* verifyPin succeeds and no session shows a counter above 0, whatever     *)
(* disconnect / initializeKeycard / verifyPin calls follow.                *)
(***************************************************************************)
C6_LockoutTerminal ==
    [][cardLocked => /\ ~VerifySucceeded
                     /\ (cardStatus' # Null => cardStatus'[1].pinRetries <= 0)]_vars

(***************************************************************************)
(* C7: pinRetries goes down only by a failed VERIFY and goes up only by a  *)
(* successful verifyPin; initializeKeycard alone never raises it.          *)
(***************************************************************************)
C7_RetriesChangeOnlyByVerify ==
    [][(cardStatus # Null /\ cardStatus' # Null) =>
         /\ (cardStatus'[1].pinRetries < cardStatus[1].pinRetries => VerifyFailed)
         /\ (cardStatus'[1].pinRetries > cardStatus[1].pinRetries => VerifySucceeded)]_vars

(***************************************************************************)
(* C8: initializeKeycard on a connected session returns                    *)
(* SessionAlreadyActive and leaves the session's state as it was.          *)
(***************************************************************************)
C8_ConnectWhileConnected ==
    [][(isConnected /\ InitializeKeycard)
         => /\ lastResult'.outcome = "SessionAlreadyActive"
            /\ UNCHANGED <<isConnected, cardStatus, log>>]_vars

(***************************************************************************)
(* C9: a signing call that arrives while another signing exchange is       *)
(* awaiting the card is rejected with SessionBusy and sends nothing.       *)
(***************************************************************************)
C9_SecondSignBusy ==
    [][(SigningInProgress /\ SignCalled)
         => (calls' = calls /\ lastResult'.outcome = "SessionBusy")]_vars

\* The NFCService operations with a transceive outstanding.
Outstanding == {s \in NfcSlots : nfcOps[s].stage \in {"select", "command"}}

(***************************************************************************)
(* C10: under every interleaving of NFCService operations at most one APDU *)
(* exchange is outstanding, so no exchange of another operation falls      *)
(* between the SELECT and the command of one operation.                    *)
(***************************************************************************)
C10_OneExchangeOutstanding ==
    Cardinality(Outstanding) <= 1

(***************************************************************************)
(* More steps and values the properties speak of.                          *)
(***************************************************************************)
\* Some KeycardService call is awaiting the card.
ExchangeInFlight == \E s \in Slots : calls[s] # IdleCall

\* This step is a verifyPin call with any PIN of the input set.
AnyVerifyPinCalled == \E s \in Slots, pin \in Pins : VerifyPinCall(s, pin)

\* What sendPinVerificationCommand resolves with: a boolean.  The answer of
\* the card carries no retry count and no lock state.
CardResponse(pin) == [valid |-> SendPinVerificationCommand(pin), retries |-> Null]

\* Public keys by their encoding: the leading byte and the number of hex
\* digits after it.  sendDerivationCommand resolves '0x' + '02' + 'a' x 128.
MockPublicKey == [prefix |-> "02", digits |-> 128]
\* sendSigningCommand resolves the same (r, s, v) for every digest.
MockSignature == [v |-> 27, rDigits |-> 64, sDigits |-> 64]
\* The encodings of a secp256k1 public key (what ethers.computeAddress
\* takes): compressed, 02 or 03 and 32 bytes; uncompressed, 04 and 64 bytes.
IsPublicKey(k) ==
    \/ k.prefix \in {"02", "03"} /\ k.digits = 64
    \/ k.prefix = "04" /\ k.digits = 128

(***************************************************************************)
(* C12: disconnect leads to Disconnected from any state; while             *)
(* disconnected every verifyPin, derivePublicKey, signTransaction and      *)
(* signMessage call fails with no hardware call; and a PIN verified before *)
(* the disconnect does not let a later session sign: SIGN is sent there    *)
(* only after a verifyPin of that session has succeeded.                   *)
(***************************************************************************)
C12_DisconnectEndsAuthentication ==
    [][/\ (Disconnect => (~isConnected' /\ cardStatus' = Null))
       /\ ((~isConnected /\ (AnyVerifyPinCalled \/ SignCalled \/ DeriveCalled))
             => (calls' = calls /\ lastResult'.outcome = "NotConnected"))
       /\ ((priorVerified /\ ~Authenticated)
             => ~\E op \in SignOps : HardwareCall(op))]_vars

(***************************************************************************)
(* C14: the retry count the client shows is the one the card reported in   *)
(* its latest response: whenever the count of a session changes, the new   *)
(* value is the one carried by the card's answer settled in that step.     *)
(***************************************************************************)
C14_RetriesAsCardReported ==
    [][(cardStatus # Null /\ cardStatus' # Null
          /\ cardStatus'[1].pinRetries # cardStatus[1].pinRetries)
         => \E s \in Slots : /\ VerifyPinResume(s)
                             /\ CardResponse(calls[s].pin).retries
                                  = Some(cardStatus'[1].pinRetries)]_vars

(***************************************************************************)
(* C15: reading the status (getStatus) changes neither pinRetries nor any  *)
(* other state of the session, however often it is called.                 *)
(***************************************************************************)
C15_GetStatusReadOnly ==
    [][(lastResult'.op = "getStatus" /\ lastResult' # lastResult)
         => /\ UNCHANGED <<isConnected, cardStatus, calls, log, cardLocked, priorVerified>>
            /\ lastResult'.retries = FailureRetries(cardStatus)]_vars

C15_Witness ==
    /\ lastResult = Result("getStatus", "Status", Some(InitialRetries - 1))
    /\ cardStatus # Null /\ cardStatus[1].pinRetries = InitialRetries - 1

(***************************************************************************)
(* C18: a signing call returns a signature (r, s, v) only if the key       *)
(* recovered from it for v = 0 or v = 1 is the key derived for the path:   *)
(* so the v it returns is one of the two candidates, and the derived key   *)
(* is a public key a signature can recover.                                *)
(***************************************************************************)
C18_SignatureRecoversKey ==
    (lastResult.op \in SignOps /\ lastResult.outcome = "Signature")
        => (MockSignature.v \in {0, 1} /\ IsPublicKey(MockPublicKey))

(***************************************************************************)
(* C19: a disconnect requested while an exchange is in flight does not     *)
(* take the session's state away before that exchange has returned.        *)
(***************************************************************************)
C19_DisconnectWaitsForExchange ==
    [][(Disconnect /\ ExchangeInFlight) => UNCHANGED <<isConnected, cardStatus>>]_vars

(***************************************************************************)
(* C20: a PIN failure reported by the card surfaces to the caller and is   *)
(* not retried: the step that takes a failed VERIFY's answer (the counter  *)
(* goes down) settles that call with the retry / locked error carrying the *)
(* new count, and leaves no exchange of that call in flight.               *)
(***************************************************************************)
C20_PinFailureSurfaces ==
    [][(cardStatus # Null /\ cardStatus' # Null
          /\ cardStatus'[1].pinRetries < cardStatus[1].pinRetries)
         => /\ lastResult'.op = "verifyPin"
            /\ lastResult'.outcome \in {"Retry", "Locked"}
            /\ lastResult'.retries = Some(cardStatus'[1].pinRetries)
            /\ \E s \in Slots : /\ calls[s].op = "verifyPin"
                                /\ calls' = [calls EXCEPT ![s] = IdleCall]]_vars

C20_Witness ==
    /\ lastResult = Result("verifyPin", "Retry", Some(InitialRetries - 1))
    /\ ~ExchangeInFlight

(***************************************************************************)
(* The KeycardService with the scheduling JavaScript guarantees: a pending *)
(* timer of a mock hardware call fires, so every call awaiting the card    *)
(* resumes.  Calls from outside (initializeKeycard, disconnect, ...) are   *)
(* not obliged to happen.                                                  *)
(***************************************************************************)
SpecLive ==
    /\ Spec
    /\ \A s \in Slots : /\ WF_vars(VerifyPinResume(s))
                        /\ WF_vars(DerivePublicKeyResume(s))
                        /\ WF_vars(SignTransactionResume(s))
                        /\ WF_vars(SignMessageResume(s))

(***************************************************************************)
(* C17: a connected session with no exchange in flight is eventually       *)
(* closed (by an inactivity timer): it does not stay connected forever.    *)
(***************************************************************************)
C17_IdleSessionTimesOut ==
    (isConnected /\ ~ExchangeInFlight) ~> ~isConnected

(***************************************************************************)
(* C16: when the SELECT exchange does not return success, no command       *)
(* (GET STATUS, VERIFY, GET PUBLIC KEY, SIGN) is sent after it: an         *)
(* operation whose command is with the card had 9000 from its SELECT.      *)
(***************************************************************************)
C16_NoCommandAfterFailedSelect ==
    \A s \in NfcSlots : nfcOps[s].stage = "command" => nfcOps[s].selectSw = "9000"

\* This step is a disconnectTag / a sendAPDU of a SIGN command.
DisconnectTagCalled == \E closeOutcome \in CloseOutcomes : DisconnectTag(closeOutcome)
SignApduCalled == \E outcome \in TransceiveOutcomes : SendAPDU("SIGN", outcome)

(***************************************************************************)
(* C11: after the transport has failed during a SIGN exchange, the session *)
(* is dead: every later SIGN on it fails with a not-connected or transport *)
(* error, until a new connection has been opened.                          *)
(***************************************************************************)
C11_SignAfterAbortFails ==
    [][(signAborted /\ SignApduCalled)
         => modLast'.outcome \in {"NotConnected", "ApduError"}]_vars

(***************************************************************************)
(* C13: KeycardService.disconnect and NFCModule.disconnectTag succeed from *)
(* every state and leave the disconnected state, which a further call      *)
(* leaves as it is.                                                        *)
(***************************************************************************)
C13_DisconnectIdempotent ==
    [][/\ (Disconnect => (/\ lastResult'.outcome = "Ok"
                          /\ ~isConnected' /\ cardStatus' = Null))
       /\ (DisconnectTagCalled => (modLast'.outcome = "Ok" /\ ~ModuleConnected'))]_vars

(***************************************************************************)
(* C21: every outcome of a PIN verification is published to observers: a   *)
(* successful verifyPin emits PINVerified, a failed one PinFailed, and the *)
(* one that locks the card CardLocked.                                     *)
(***************************************************************************)
C21_PinOutcomesPublished ==
    [][/\ (VerifySucceeded => "PINVerified" \in emitted')
       /\ (VerifyFailed => "PinFailed" \in emitted')
       /\ ((VerifyFailed /\ lastResult'.outcome = "Locked") => "CardLocked" \in emitted')]_vars

(***************************************************************************)
(* C25: for every discovered tag with IsoDep, handleIntent sends exactly   *)
(* one event to JavaScript: NFCTagDetected when connect() succeeded,       *)
(* NFCError when it threw.                                                 *)
(***************************************************************************)
C25_OneEventPerDiscovery ==
    lastIntent.kind = "isoDep"
        => lastIntent.events = (IF lastIntent.connectOk THEN <<"NFCTagDetected">>
                                ELSE <<"NFCError">>)

(***************************************************************************)
(* C26: a failing verifyPin that was awaiting the card when the session    *)
(* was disconnected does not change the retry counter of the session       *)
(* opened since.                                                           *)
(***************************************************************************)
C26_StaleVerifyKeepsNewCounter ==
    [][\A s \in Slots : (s \in staleVerify /\ cardStatus # Null /\ VerifyPinResume(s))
                            => cardStatus' = cardStatus]_vars

(***************************************************************************)
(* C27 as stated: verifyPin with a PIN that is not 4 to 6 digits fails     *)
(* with the format error, sends nothing to the card and leaves pinRetries  *)
(* and the connection state as they are.                                   *)
(***************************************************************************)
C27_BadPinFormatError ==
    [][\A s \in Slots, pin \in Pins :
          (~PinFormatOK(pin) /\ VerifyPinCall(s, pin))
              => /\ lastResult'.outcome = "PinFormat"
                 /\ UNCHANGED <<calls, cardStatus, isConnected>>]_vars

(***************************************************************************)
(* C27 amended: on a connected service the call fails with the format      *)
(* error, on a disconnected one with the not-connected error, which is     *)
(* tested first; either way nothing is sent to the card and pinRetries     *)
(* and the connection state stay as they are.                              *)
(***************************************************************************)
C27_BadPinRejected ==
    [][\A s \in Slots, pin \in Pins :
          (~PinFormatOK(pin) /\ VerifyPinCall(s, pin))
              => /\ lastResult'.outcome = (IF isConnected THEN "PinFormat" ELSE "NotConnected")
                 /\ UNCHANGED <<calls, cardStatus, isConnected>>]_vars

C27_Witness ==
    /\ lastResult = Result("verifyPin", "PinFormat", Null)
    /\ isConnected /\ cardStatus # Null /\ cardStatus[1].pinRetries < InitialRetries

\* This step is a sendAPDU.
SendApduCalled == \E cmd \in ApduKinds, outcome \in TransceiveOutcomes : SendAPDU(cmd, outcome)

(***************************************************************************)
(* C28: NFCModule.sendAPDU without an open tag connection (none made yet,  *)
(* closed by disconnectTag, or the tag gone) never transceives: it rejects *)
(* with 'Keycard not connected' and leaves the connection as it is.        *)
(***************************************************************************)
C28_NoTransceiveUnlessConnected ==
    [][(~ModuleConnected /\ SendApduCalled)
         => /\ modLast'.outcome = "NotConnected"
            /\ UNCHANGED <<isoDep, tagPresent, signAborted>>]_vars

C28_Witness ==
    /\ modLast.op = "sendAPDU" /\ modLast.outcome = "NotConnected"
    /\ isoDep # Null /\ ~tagPresent

(***************************************************************************)
(* C23: a card response is decoded before it is returned; one of fewer     *)
(* than two bytes is a ProtocolError and never comes back to the caller    *)
(* as the operation's result.                                              *)
(***************************************************************************)
C23_ShortResponseIsProtocolError ==
    nfcLast.op \in NfcOpKinds => nfcLast.outcome \notin ShortResponses

\* The frame of a KeycardAPDU as the claim lays it out: the four header
\* bytes, Lc and the data when there is data, Le when le is set.
ExpectedFrame(apdu) ==
    ByteToHex(apdu.cla) \o ByteToHex(apdu.ins) \o ByteToHex(apdu.p1) \o ByteToHex(apdu.p2)
      \o (IF apdu.data # <<>>
          THEN ByteToHex(Len(BufferFromHex(apdu.data))) \o apdu.data ELSE <<>>)
      \o (IF apdu.le # Null THEN ByteToHex(apdu.le[1]) ELSE <<>>)

(***************************************************************************)
(* C22: formatAPDU emits CLA, INS, P1, P2, then Lc and the data only when  *)
(* there is data (no Lc byte without data), then Le only when le is set.   *)
(***************************************************************************)
C22_FrameLayout ==
    apduIn # NoApdu => apduHex = ExpectedFrame(apduIn)

\* The bytes that go on the wire: Buffer.from(apduHex, 'hex')
WireBytes == BufferFromHex(apduHex)

(***************************************************************************)
(* C30: for a command with data, the Lc byte on the wire is the number of  *)
(* data bytes that follow it (the bytes after Lc, less the Le byte when le *)
(* is set).                                                                *)
(***************************************************************************)
C30_LcIsDataLength ==
    (apduIn # NoApdu /\ apduIn.data # <<>>)
        => /\ Len(WireBytes) >= 5
           /\ WireBytes[5] = Len(WireBytes) - 5 - (IF apduIn.le # Null THEN 1 ELSE 0)

(***************************************************************************)
(* C24: every index of an accepted path is a 32-bit value: a plain         *)
(* component is below 2^31, a hardened one is in [2^31, 2^32).             *)
(***************************************************************************)
C24_IndicesAre32Bit ==
    pathOut.status = "Ok"
        => \A i \in 1..Len(pathOut.indices) :
              IF Hardened(PathParts(pathIn)[i])
              THEN Below(pathOut.indices[i], 65536) /\ ~Below(pathOut.indices[i], 32768)
              ELSE Below(pathOut.indices[i], 32768)

\* The call has settled / is in progress.
RetryDone == retry.phase \in {"returned", "threw"}
RetryBusy == retry.phase \in {"awaitFn", "sleeping"}
AllFailedBefore(n) == \A k \in 1..(n - 1) : ~retry.fnLog[k]

====
